---------------------------- MODULE Spec2Model ----------------------------
(***************************************************************************)
(* A model of main_trainer.py: the RotNet training driver.                 *)
(*                                                                         *)
(* The driver is a sequential script.  Its state is the script's position  *)
(* (pc), the parsed arguments, the ./state_root directory, the dataloaders,*)
(* the train state, the epoch counter, the checkpoints written, and the    *)
(* activation record of the train_epoch / eval_model call in progress.     *)
(*                                                                         *)
(* Numerical abstraction.  The network and the optimizer live in external  *)
(* libraries.  Parameters and optimizer state are kept as terms: the       *)
(* sequence of batches whose gradients were applied, in order.  Metrics    *)
(* are exact rationals <<num, den>>; floating-point rounding of np.mean is *)
(* not modelled.                                                           *)
(***************************************************************************)
EXTENDS Integers, Sequences, FiniteSets, TLC

VARIABLES pc, args, dirExists, loaders, state, epoch, saved, log, frame,
          result, ncalls

vars == <<pc, args, dirExists, loaders, state, epoch, saved, log, frame,
          result, ncalls>>

---------------------------------------------------------------------------
(* Bounds of the model.                                                    *)

MaxEpochs == 11
MaxStartEpoch == 2
MaxBatchSize == 2
MaxBatches == 2
MaxCalls == 3

---------------------------------------------------------------------------
(* Rationals, for the means.                                               *)

Abs(x) == IF x < 0 THEN -x ELSE x

RECURSIVE Gcd(_, _)
Gcd(a, b) == IF b = 0 THEN a ELSE Gcd(b, a % b)

Rat(n, d) ==
    LET g == Gcd(Abs(n), d)
    IN  <<n \div g, d \div g>>

RatAdd(p, q) == Rat(p[1] * q[2] + q[1] * p[2], p[2] * q[2])

RECURSIVE RatSum(_)
RatSum(xs) == IF xs = <<>> THEN <<0, 1>> ELSE RatAdd(xs[1], RatSum(Tail(xs)))

RECURSIVE IntSum(_)
IntSum(xs) == IF xs = <<>> THEN 0 ELSE xs[1] + IntSum(Tail(xs))

\* jnp.mean / .mean() over the samples of one batch (lines 45, 53); the
\* per-sample values are integers.
jnp_mean(xs) == Rat(IntSum(xs), Len(xs))

\* A mean that also counts the slot after the last element.
np_mean_off_by_one(xs) == Rat(RatSum(xs)[1], RatSum(xs)[2] * (Len(xs) + 1))

\* np.mean over the per-batch values of one metric (lines 102, 123).
np_mean(xs) == Rat(RatSum(xs)[1], RatSum(xs)[2] * Len(xs))

---------------------------------------------------------------------------
(* Data: a sample is a rotated image with its rotation label; a batch is a *)
(* non-empty sequence of samples (images, labels); a dataloader is a       *)
(* sequence of batches.                                                    *)

Samples == {[image |-> 0, label |-> 0], [image |-> 1, label |-> 3]}

SeqsUpTo(S, lo, hi) == UNION {[1..n -> S] : n \in lo..hi}

Batches == SeqsUpTo(Samples, 1, MaxBatchSize)

Loaders == SeqsUpTo(Batches, 0, MaxBatches)

RotTrainData == <<[image |-> 0, label |-> 0], [image |-> 1, label |-> 3],
                  [image |-> 1, label |-> 3]>>

RotValidationData == <<[image |-> 1, label |-> 3], [image |-> 0, label |-> 0]>>

RotTestData == <<[image |-> 0, label |-> 0], [image |-> 0, label |-> 0],
                 [image |-> 1, label |-> 3]>>

Min(a, b) == IF a < b THEN a ELSE b

\* A torch DataLoader over data: consecutive batches of batch_size, the last
\* one possibly shorter.
RECURSIVE DataLoader(_, _)
DataLoader(data, batch_size) ==
    IF data = <<>> THEN <<>>
    ELSE LET k == Min(batch_size, Len(data))
         IN  <<SubSeq(data, 1, k)>>
               \o DataLoader(SubSeq(data, k + 1, Len(data)), batch_size)

\* load_data(batch_size, workers): the rotation loaders main uses.
load_data(batch_size) ==
    [rot_train      |-> DataLoader(RotTrainData, batch_size),
     rot_validation |-> DataLoader(RotValidationData, batch_size),
     rot_test       |-> DataLoader(RotTestData, batch_size)]

NoLoaders == [rot_train |-> <<>>, rot_validation |-> <<>>, rot_test |-> <<>>]

---------------------------------------------------------------------------
(* The network, the loss and the metrics.                                  *)

\* Number of outputs of RotNet3 (the four rotations).
NumRotations == 4

\* The class the network predicts (argmax of the logits) for an image under
\* params: a fixed function of both.
Predict(params, image) == (image + Len(params)) % NumRotations

\* state.apply_fn({"params": params}, images, ...): one logit row per image.
apply_fn(params, batch) == [i \in 1..Len(batch) |-> Predict(params, batch[i].image)]

\* The batch statistics a train=True forward pass returns (mutable=["batch_stats"]).
new_batch_stats(batch) == [batch_stats |-> <<batch>>]

Labels(batch) == [i \in 1..Len(batch) |-> batch[i].label]

\* Per-sample loss on an integer scale: 0 for a correct prediction.
SampleLoss(pred, label, num_classes) == (pred - label) % num_classes

cross_entropy_loss(logits, labels, num_classes) ==
    jnp_mean([i \in 1..Len(logits) |-> SampleLoss(logits[i], labels[i], num_classes)])

compute_metrics(logits, labels, num_classes) ==
    [loss     |-> cross_entropy_loss(logits, labels, num_classes),
     accuracy |-> jnp_mean([i \in 1..Len(logits) |->
                               IF logits[i] = labels[i] THEN 1 ELSE 0])]

---------------------------------------------------------------------------
(* The train state.                                                        *)

\* model.init(rng, ones, train=True)
model_init == [params |-> <<>>, batch_stats |-> <<>>]

\* train_state.TrainState.create(apply_fn, params, tx): step 0, the params,
\* the optimizer state tx.init(params).
TrainState_create(params) == [step |-> 0, params |-> params, opt_state |-> <<>>]

create_train_state ==
    LET variables   == model_init
        params      == variables.params
        batch_stats == variables.batch_stats
    IN  TrainState_create(params)

NoState == [step |-> -1, params |-> <<>>, opt_state |-> <<>>]

\* state.apply_gradients(grads): one optimizer step.
apply_gradients(s, grads) ==
    [s EXCEPT !.step = @ + 1,
              !.params = Append(@, grads),
              !.opt_state = Append(@, grads)]

\* train_batch(state, images, labels, num_classes): the gradient of the loss
\* on the batch is the term "batch"; new_state is computed and dropped.
train_batch(s, batch, num_classes) ==
    LET logits    == apply_fn(s.params, batch)
        new_state == new_batch_stats(batch)
        grads     == batch
    IN  [state   |-> apply_gradients(s, grads),
         metrics |-> compute_metrics(logits, Labels(batch), num_classes)]

eval_batch(s, batch, num_classes) ==
    compute_metrics(apply_fn(s.params, batch), Labels(batch), num_classes)

\* {k: np.mean([metrics[k] for metrics in batch_metrics_np]) for k in ...}
epoch_metrics(batch_metrics) ==
    [loss     |-> np_mean([i \in 1..Len(batch_metrics) |-> batch_metrics[i].loss]),
     accuracy |-> np_mean([i \in 1..Len(batch_metrics) |-> batch_metrics[i].accuracy])]

---------------------------------------------------------------------------
(* Activation records of train_epoch and eval_model.                       *)

NoArgs == [epochs |-> 0, start_epoch |-> 0, batch_size |-> 0]

NoFrame == [fn |-> "none", loader |-> "none", dataloader |-> <<>>,
            num_classes |-> 0, state_in |-> NoState, state |-> NoState,
            i |-> 0, batch_metrics |-> <<>>, trace |-> <<>>, ret |-> "none"]

NoResult == [fn |-> "none", loader |-> "none", dataloader |-> <<>>,
             num_classes |-> 0, state_in |-> NoState, state |-> NoState,
             trace |-> <<>>, metrics |-> [loss |-> <<0, 1>>, accuracy |-> <<0, 1>>]]

\* Entry to fn(state, dataloader, num_classes=...): the locals before the loop
\* (batch_metrics = [], i = 0).  state_in and trace record the call.
Call(fn, loader, s, num_classes, ret) ==
    [fn |-> fn, loader |-> loader, dataloader |-> loaders[loader],
     num_classes |-> num_classes, state_in |-> s, state |-> s,
     i |-> 0, batch_metrics |-> <<>>, trace |-> <<>>, ret |-> ret]

Returned(metrics) ==
    [fn |-> frame.fn, loader |-> frame.loader, dataloader |-> frame.dataloader,
     num_classes |-> frame.num_classes, state_in |-> frame.state_in,
     state |-> frame.state, trace |-> frame.trace, metrics |-> metrics]

Event(op) == [op |-> op, loader |-> frame.loader, epoch |-> epoch, state |-> frame.state]

\* One iteration of train_epoch's loop that keeps the state it was given.
TrainEpochIter_state_not_threaded ==
    /\ frame.fn = "train_epoch"
    /\ frame.i < Len(frame.dataloader)
    /\ LET batch == frame.dataloader[frame.i + 1]
           r     == train_batch(frame.state, batch, frame.num_classes)
       IN  frame' = [frame EXCEPT
                       !.i = @ + 1,
                       !.batch_metrics = Append(@, r.metrics),
                       !.trace = Append(@, [batch |-> batch, state_in |-> frame.state,
                                            state_out |-> r.state])]
    /\ UNCHANGED <<pc, args, dirExists, loaders, state, epoch, saved, log, result, ncalls>>

\* One iteration of "for images, labels in dataloader" in train_epoch.
TrainEpochIter ==
    /\ frame.fn = "train_epoch"
    /\ frame.i < Len(frame.dataloader)
    /\ LET batch == frame.dataloader[frame.i + 1]
           r     == train_batch(frame.state, batch, frame.num_classes)
       IN  frame' = [frame EXCEPT
                       !.i = @ + 1,
                       !.state = r.state,
                       !.batch_metrics = Append(@, r.metrics),
                       !.trace = Append(@, [batch |-> batch, state_in |-> frame.state,
                                            state_out |-> r.state])]
    /\ UNCHANGED <<pc, args, dirExists, loaders, state, epoch, saved, log, result, ncalls>>

\* The loop of train_epoch is exhausted: average and return; the caller's
\* "state, metrics = train_epoch(...)" rebinds state.
TrainEpochReturn ==
    /\ frame.fn = "train_epoch"
    /\ frame.i = Len(frame.dataloader)
    /\ frame.batch_metrics # <<>>
    /\ state' = frame.state
    /\ result' = Returned(epoch_metrics(frame.batch_metrics))
    /\ log' = Append(log, Event("train_epoch"))
    /\ pc' = frame.ret
    /\ frame' = NoFrame
    /\ UNCHANGED <<args, dirExists, loaders, epoch, saved, ncalls>>

\* An empty dataloader: batch_metrics_np[0] raises IndexError.
EpochRaise ==
    /\ frame.fn \in {"train_epoch", "eval_model"}
    /\ frame.i = Len(frame.dataloader)
    /\ frame.batch_metrics = <<>>
    /\ pc' = "error"
    /\ frame' = NoFrame
    /\ UNCHANGED <<args, dirExists, loaders, state, epoch, saved, log, result, ncalls>>

\* An iteration of eval_model's loop that takes a training step.
EvalModelIter_trains ==
    /\ frame.fn = "eval_model"
    /\ frame.i < Len(frame.dataloader)
    /\ LET batch == frame.dataloader[frame.i + 1]
           r     == train_batch(frame.state, batch, frame.num_classes)
       IN  frame' = [frame EXCEPT
                       !.i = @ + 1,
                       !.state = r.state,
                       !.batch_metrics = Append(@, r.metrics),
                       !.trace = Append(@, [batch |-> batch, state_in |-> frame.state,
                                            state_out |-> r.state])]
    /\ UNCHANGED <<pc, args, dirExists, loaders, state, epoch, saved, log, result, ncalls>>

\* One iteration of "for images, labels in dataloader" in eval_model.
EvalModelIter ==
    /\ frame.fn = "eval_model"
    /\ frame.i < Len(frame.dataloader)
    /\ LET batch   == frame.dataloader[frame.i + 1]
           metrics == eval_batch(frame.state, batch, frame.num_classes)
       IN  frame' = [frame EXCEPT
                       !.i = @ + 1,
                       !.batch_metrics = Append(@, metrics),
                       !.trace = Append(@, [batch |-> batch, state_in |-> frame.state,
                                            state_out |-> frame.state])]
    /\ UNCHANGED <<pc, args, dirExists, loaders, state, epoch, saved, log, result, ncalls>>

\* eval_model returns (loss, accuracy); the caller's state is not rebound.
EvalModelReturn ==
    /\ frame.fn = "eval_model"
    /\ frame.i = Len(frame.dataloader)
    /\ frame.batch_metrics # <<>>
    /\ result' = Returned(epoch_metrics(frame.batch_metrics))
    /\ log' = Append(log, Event("eval_model"))
    /\ pc' = frame.ret
    /\ frame' = NoFrame
    /\ UNCHANGED <<args, dirExists, loaders, state, epoch, saved, ncalls>>

---------------------------------------------------------------------------
(* main, up to exit().                                                     *)

DefaultNumClasses == 10

LoopPcs == {"for", "train_call", "train", "ckpt", "eval_call", "eval_validation",
            "if_test", "eval_test", "done"}

\* args = parse(): the flags main's control flow reads.
Parse ==
    /\ pc = "parse"
    /\ \E e \in 0..MaxEpochs, s \in 0..MaxStartEpoch, b \in 1..MaxBatchSize :
          args' = [epochs |-> e, start_epoch |-> s, batch_size |-> b]
    /\ pc' = "rng"
    /\ UNCHANGED <<dirExists, loaders, state, epoch, saved, log, frame, result, ncalls>>

\* rng = PRNGKey(0); rng, _ = split(rng)
GenerateRng ==
    /\ pc = "rng"
    /\ pc' = "model"
    /\ UNCHANGED <<args, dirExists, loaders, state, epoch, saved, log, frame, result, ncalls>>

\* model = RotNet3()
DefineNetwork ==
    /\ pc = "model"
    /\ pc' = "load"
    /\ UNCHANGED <<args, dirExists, loaders, state, epoch, saved, log, frame, result, ncalls>>

LoadData ==
    /\ pc = "load"
    /\ loaders' = load_data(args.batch_size)
    /\ pc' = "create"
    /\ UNCHANGED <<args, dirExists, state, epoch, saved, log, frame, result, ncalls>>

CreateState ==
    /\ pc = "create"
    /\ state' = create_train_state
    /\ pc' = "statedir"
    /\ UNCHANGED <<args, dirExists, loaders, epoch, saved, log, frame, result, ncalls>>

\* if not os.path.exists(path): os.makedirs(path)
StateDir ==
    /\ pc = "statedir"
    /\ dirExists' = TRUE
    /\ pc' = "exit"
    /\ UNCHANGED <<args, loaders, state, epoch, saved, log, frame, result, ncalls>>

\* The script without its exit() call: control reaches the loop.
Exit_falls_through ==
    /\ pc = "exit"
    /\ pc' = "for"
    /\ UNCHANGED <<args, dirExists, loaders, state, epoch, saved, log, frame, result, ncalls>>

\* exit()
Exit ==
    /\ pc = "exit"
    /\ pc' = "exited"
    /\ UNCHANGED <<args, dirExists, loaders, state, epoch, saved, log, frame, result, ncalls>>

Init ==
    /\ pc = "parse"
    /\ args = NoArgs
    /\ dirExists \in BOOLEAN
    /\ loaders = NoLoaders
    /\ state = NoState
    /\ epoch = -1
    /\ saved = <<>>
    /\ log = <<>>
    /\ frame = NoFrame
    /\ result = NoResult
    /\ ncalls = 0

Next ==
    \/ Parse
    \/ GenerateRng
    \/ DefineNetwork
    \/ LoadData
    \/ CreateState
    \/ StateDir
    \/ Exit

Spec == Init /\ [][Next]_vars

\* A sequential script: the interpreter always runs the next statement.
FairSpec == Spec /\ WF_vars(Next)

---------------------------------------------------------------------------
(* The training loop: the statements of main that follow exit().           *)

\* for epoch in tqdm(range(args.epochs))
ForEpoch ==
    /\ pc = "for"
    /\ IF epoch + 1 < args.epochs
          THEN epoch' = epoch + 1 /\ pc' = "train_call"
          ELSE epoch' = epoch /\ pc' = "done"
    /\ UNCHANGED <<args, dirExists, loaders, state, saved, log, frame, result, ncalls>>

\* state, train_epoch_metrics_np = train_epoch(state, rot_train_loader, ..., num_classes=4)
CallTrainEpoch ==
    /\ pc = "train_call"
    /\ frame' = Call("train_epoch", "rot_train", state, NumRotations, "ckpt")
    /\ pc' = "train"
    /\ UNCHANGED <<args, dirExists, loaders, state, epoch, saved, log, result, ncalls>>

\* A loop that goes on to the evaluation without writing the checkpoint.
SaveCheckpoint_skipped ==
    /\ pc = "ckpt"
    /\ pc' = "eval_call"
    /\ UNCHANGED <<args, dirExists, loaders, state, epoch, saved, log, frame, result, ncalls>>

\* A checkpoint numbered from 1.
SaveCheckpoint_step_off_by_one ==
    /\ pc = "ckpt"
    /\ saved' = Append(saved, [step |-> epoch + 1, target |-> state])
    /\ log' = Append(log, [op |-> "save_checkpoint", loader |-> "none",
                            epoch |-> epoch, state |-> state])
    /\ pc' = "eval_call"
    /\ UNCHANGED <<args, dirExists, loaders, state, epoch, frame, result, ncalls>>

\* checkpoints.save_checkpoint(ckpt_dir="./state_root", target=state, step=epoch)
SaveCheckpoint ==
    /\ pc = "ckpt"
    /\ saved' = Append(saved, [step |-> epoch, target |-> state])
    /\ log' = Append(log, [op |-> "save_checkpoint", loader |-> "none",
                            epoch |-> epoch, state |-> state])
    /\ pc' = "eval_call"
    /\ UNCHANGED <<args, dirExists, loaders, state, epoch, frame, result, ncalls>>

\* validation_loss, _ = eval_model(state, rot_validation_loader, num_classes=4)
CallEvalValidation ==
    /\ pc = "eval_call"
    /\ frame' = Call("eval_model", "rot_validation", state, NumRotations, "if_test")
    /\ pc' = "eval_validation"
    /\ UNCHANGED <<args, dirExists, loaders, state, epoch, saved, log, result, ncalls>>

\* A test evaluation in every epoch.
IfTestEpoch_every_epoch ==
    /\ pc = "if_test"
    /\ frame' = Call("eval_model", "rot_test", state, NumRotations, "for")
    /\ pc' = "eval_test"
    /\ UNCHANGED <<args, dirExists, loaders, state, epoch, saved, log, result, ncalls>>

\* if epoch % 10 == 0: _, test_accuracy = eval_model(state, rot_test_loader, num_classes=4)
IfTestEpoch ==
    /\ pc = "if_test"
    /\ IF epoch % 10 = 0
          THEN /\ frame' = Call("eval_model", "rot_test", state, NumRotations, "for")
               /\ pc' = "eval_test"
          ELSE /\ frame' = frame
               /\ pc' = "for"
    /\ UNCHANGED <<args, dirExists, loaders, state, epoch, saved, log, result, ncalls>>

\* The state on reaching "Starting Training Loop!": parse, load_data,
\* create_train_state and the state-directory step are done.
LoopInit ==
    /\ pc = "for"
    /\ args \in [epochs : 0..MaxEpochs, start_epoch : 0..MaxStartEpoch,
                  batch_size : 1..MaxBatchSize]
    /\ dirExists = TRUE
    /\ loaders = load_data(args.batch_size)
    /\ state = create_train_state
    /\ epoch = -1
    /\ saved = <<>>
    /\ log = <<>>
    /\ frame = NoFrame
    /\ result = NoResult
    /\ ncalls = 0

LoopNext ==
    \/ ForEpoch
    \/ CallTrainEpoch
    \/ TrainEpochIter
    \/ TrainEpochReturn
    \/ SaveCheckpoint
    \/ CallEvalValidation
    \/ EvalModelIter
    \/ EvalModelReturn
    \/ IfTestEpoch

LoopSpec == LoopInit /\ [][LoopNext]_vars

---------------------------------------------------------------------------
(* train_epoch and eval_model on arbitrary dataloaders: a caller that      *)
(* holds a fresh train state and calls either function repeatedly.         *)

CallerTrain ==
    /\ pc = "caller"
    /\ ncalls < MaxCalls
    /\ ncalls' = ncalls + 1
    /\ frame' = Call("train_epoch", "rot_train", state, DefaultNumClasses, "caller")
    /\ pc' = "train"
    /\ UNCHANGED <<args, dirExists, loaders, state, epoch, saved, log, result>>

CallerEval ==
    /\ pc = "caller"
    /\ ncalls < MaxCalls
    /\ ncalls' = ncalls + 1
    /\ frame' = Call("eval_model", "rot_validation", state, DefaultNumClasses, "caller")
    /\ pc' = "eval_validation"
    /\ UNCHANGED <<args, dirExists, loaders, state, epoch, saved, log, result>>

EpochInit ==
    /\ pc = "caller"
    /\ args = NoArgs
    /\ dirExists = TRUE
    /\ \E dl \in Loaders :
          loaders = [rot_train |-> dl, rot_validation |-> dl, rot_test |-> dl]
    /\ state = create_train_state
    /\ epoch = 0
    /\ saved = <<>>
    /\ log = <<>>
    /\ frame = NoFrame
    /\ result = NoResult
    /\ ncalls = 0

EpochNext ==
    \/ CallerTrain
    \/ CallerEval
    \/ TrainEpochIter
    \/ TrainEpochReturn
    \/ EvalModelIter
    \/ EvalModelReturn
    \/ EpochRaise

EpochSpec == EpochInit /\ [][EpochNext]_vars

---------------------------------------------------------------------------
(* Properties.                                                             *)

IsOp(i, op, loader) == log[i].op = op /\ log[i].loader = loader

Events(op, loader, e) ==
    {i \in DOMAIN log : IsOp(i, op, loader) /\ log[i].epoch = e}

\* The loop body has not been entered: no call of train_epoch,
\* save_checkpoint or eval_model has been made or is in progress.
C1_NoLoopCalls ==
    /\ pc \notin LoopPcs
    /\ log = <<>>
    /\ saved = <<>>
    /\ frame = NoFrame

\* C1: every run of main reaches exit() after the state-directory step and
\* stops there; train_epoch, save_checkpoint and eval_model are never
\* invoked, whatever the arguments and whether or not ./state_root existed.
C1_ExitBeforeLoop ==
    /\ [](C1_NoLoopCalls)
    /\ [](pc = "exited" => dirExists /\ state = create_train_state)
    /\ [][pc = "exit" => pc' = "exited"]_vars
    /\ <>(pc = "exited")

C1_Witness ==
    /\ pc = "exited"
    /\ dirExists
    /\ args.epochs > 0
    /\ loaders.rot_train # <<>>

\* C2 as claimed: the checkpoint of an epoch is written only after that
\* epoch's evaluation.
C2_CheckpointAfterEval ==
    \A i \in DOMAIN log :
        IsOp(i, "save_checkpoint", "none") =>
            \E j \in 1..(i - 1) : log[j].op = "eval_model" /\ log[j].epoch = log[i].epoch

\* C2 amended: within each epoch the order is train, checkpoint, evaluate:
\* the checkpoint follows the epoch's train_epoch and precedes every
\* evaluation of that epoch.
C2_TrainCheckpointEval ==
    /\ \A i \in DOMAIN log :
          IsOp(i, "save_checkpoint", "none") =>
              /\ \E j \in 1..(i - 1) : IsOp(j, "train_epoch", "rot_train")
                                        /\ log[j].epoch = log[i].epoch
              /\ \A j \in 1..(i - 1) : log[j].op = "eval_model"
                                        => log[j].epoch < log[i].epoch
    /\ \A i \in DOMAIN log :
          log[i].op = "eval_model" =>
              \E j \in 1..(i - 1) : IsOp(j, "save_checkpoint", "none")
                                    /\ log[j].epoch = log[i].epoch

C2_Witness ==
    /\ pc = "done"
    /\ args.epochs >= 2
    /\ \E i \in DOMAIN log : log[i].op = "eval_model" /\ log[i].epoch = 1

\* The epochs whose checkpoint statement has been passed.
CheckpointedEpochs ==
    IF pc \in {"for", "done", "eval_call", "eval_validation", "if_test", "eval_test"}
    THEN epoch + 1 ELSE epoch

\* C3: every epoch saves exactly one checkpoint, with step = epoch and
\* target = the state that epoch's train_epoch returned; steps increase
\* strictly; the state validated in epoch e is the one checkpointed at e.
C3_CheckpointEveryEpoch ==
    /\ Len(saved) = CheckpointedEpochs
    /\ pc = "done" => Len(saved) = args.epochs
    /\ \A i \in DOMAIN saved :
          /\ saved[i].step = i - 1
          /\ Cardinality(Events("train_epoch", "rot_train", i - 1)) = 1
          /\ \A j \in Events("train_epoch", "rot_train", i - 1) :
                log[j].state = saved[i].target
          /\ Cardinality(Events("save_checkpoint", "none", i - 1)) = 1
    /\ \A i, j \in DOMAIN saved : i < j => saved[i].step < saved[j].step
    /\ \A j \in DOMAIN log :
          IsOp(j, "eval_model", "rot_validation") =>
              /\ log[j].epoch + 1 \in DOMAIN saved
              /\ saved[log[j].epoch + 1].step = log[j].epoch
              /\ saved[log[j].epoch + 1].target = log[j].state

C3_Witness ==
    /\ pc = "done"
    /\ Len(saved) >= 3
    /\ saved[2].target # saved[3].target
    /\ Cardinality(Events("eval_model", "rot_validation", 2)) = 1

\* C4 as claimed: the train state carries the batch statistics obtained at
\* model.init.
C4_BatchStatsInState ==
    pc \in {"statedir", "exit", "exited"} =>
        /\ "batch_stats" \in DOMAIN state
        /\ state.batch_stats = model_init.batch_stats

\* C7 as claimed: the loop starts at --start-epoch: no epoch below it is
\* trained or checkpointed.
C7_StartsAtStartEpoch ==
    /\ \A i \in DOMAIN saved : saved[i].step >= args.start_epoch
    /\ \A i \in DOMAIN log : log[i].epoch >= args.start_epoch

\* The epochs whose body has run to its end.
CompletedEpochs == IF pc \in {"for", "done"} THEN 0..epoch ELSE 0..(epoch - 1)

\* C8: validation is evaluated once in every epoch; the test set is
\* evaluated exactly in the epochs e with e % 10 = 0 (epoch 0 included), and
\* after that epoch's validation.
C8_EvalSchedule ==
    /\ \A e \in CompletedEpochs :
          /\ Cardinality(Events("eval_model", "rot_validation", e)) = 1
          /\ Cardinality(Events("eval_model", "rot_test", e))
                = IF e % 10 = 0 THEN 1 ELSE 0
    /\ \A i \in DOMAIN log :
          IsOp(i, "eval_model", "rot_test") =>
              /\ log[i].epoch % 10 = 0
              /\ \E j \in 1..(i - 1) : IsOp(j, "eval_model", "rot_validation")
                                        /\ log[j].epoch = log[i].epoch
    /\ pc = "done" => CompletedEpochs = 0..(args.epochs - 1)

C8_Witness ==
    /\ pc = "done"
    /\ Events("eval_model", "rot_test", 0) # {}
    /\ Events("eval_model", "rot_test", 10) # {}
    /\ Events("eval_model", "rot_validation", 9) # {}

\* The params a call evaluates its i-th batch under: train_epoch has applied
\* the gradients of the batches before it, eval_model none.
ParamsAt(r, i) ==
    IF r.fn = "train_epoch"
    THEN r.state_in.params \o SubSeq(r.dataloader, 1, i - 1)
    ELSE r.state_in.params

\* The metrics of the i-th batch of a call.
BatchMetrics(r, i) ==
    compute_metrics(apply_fn(ParamsAt(r, i), r.dataloader[i]),
                    Labels(r.dataloader[i]), r.num_classes)

\* C5: train_epoch calls train_batch once per batch, in dataloader order,
\* each call on the state the previous one returned (the first on the state
\* passed in), and returns the state of the last call: n gradient steps.
C5_OneFullPass ==
    result.fn = "train_epoch" =>
        LET n == Len(result.dataloader)
            t == result.trace
        IN  /\ n >= 1
            /\ Len(t) = n
            /\ \A i \in 1..n : t[i].batch = result.dataloader[i]
            /\ t[1].state_in = result.state_in
            /\ \A i \in 1..(n - 1) : t[i + 1].state_in = t[i].state_out
            /\ \A i \in 1..n : t[i].state_out.step = t[i].state_in.step + 1
            /\ result.state = t[n].state_out
            /\ result.state.step = result.state_in.step + n
            /\ result.state.params = result.state_in.params \o result.dataloader
            /\ state = result.state

C5_Witness ==
    /\ result.fn = "train_epoch"
    /\ pc = "caller"
    /\ Len(result.dataloader) = 2
    /\ result.dataloader[1] # result.dataloader[2]
    /\ result.state_in.step > 0

\* C6: each metric train_epoch and eval_model return is the sum of that
\* metric over the per-batch dictionaries, one per batch, divided by the
\* number of batches, whatever the batches' sizes.
C6_MeanOfBatchMetrics ==
    result.fn \in {"train_epoch", "eval_model"} =>
        LET n == Len(result.dataloader)
        IN  /\ n >= 1
            /\ Len(result.trace) = n
            /\ \A k \in {"loss", "accuracy"} :
                  LET sum == RatSum([i \in 1..n |-> BatchMetrics(result, i)[k]])
                      m   == result.metrics[k]
                  IN  /\ m[2] > 0
                      /\ m[1] * sum[2] * n = sum[1] * m[2]

\* The accuracy over all samples of a dataloader pooled, under the params of
\* an eval_model call.
PooledAccuracy(r) ==
    LET hits(b) == IntSum([j \in 1..Len(b) |->
                      IF Predict(r.state_in.params, b[j].image) = b[j].label
                      THEN 1 ELSE 0])
    IN  Rat(IntSum([i \in 1..Len(r.dataloader) |-> hits(r.dataloader[i])]),
            IntSum([i \in 1..Len(r.dataloader) |-> Len(r.dataloader[i])]))

C6_Witness ==
    /\ result.fn = "eval_model"
    /\ Len(result.dataloader) = 2
    /\ Len(result.dataloader[1]) # Len(result.dataloader[2])
    /\ result.metrics.accuracy = <<3, 4>>
    /\ PooledAccuracy(result) = <<2, 3>>

\* C9: evaluation leaves the train state unchanged: every batch of an
\* eval_model call is evaluated against the state passed in, and after the
\* call the caller's state (params, optimizer state, step) is that state.
C9_EvalKeepsState ==
    /\ frame.fn = "eval_model" =>
          /\ frame.state = frame.state_in
          /\ frame.state_in = state
          /\ \A i \in DOMAIN frame.trace :
                frame.trace[i].state_in = state /\ frame.trace[i].state_out = state
    /\ result.fn = "eval_model" =>
          /\ result.state = result.state_in
          /\ \A i \in DOMAIN result.trace : result.trace[i].state_in = result.state_in
          /\ state = result.state_in

C9_Witness ==
    /\ result.fn = "eval_model"
    /\ pc = "caller"
    /\ ncalls = 3
    /\ Len(result.trace) = 2
    /\ state.step = 2
    /\ \E i, j \in DOMAIN log : i < j /\ log[i].op = "eval_model" /\ log[j].op = "eval_model"

===========================================================================
